---- MODULE Spec2Model ----
(***************************************************************************)
(* The lowering context `Cx` of librustc_mir/hair/cx/mod.rs as a state     *)
(* machine: the compiler state the context reads (HIR map, lint-level      *)
(* sets, session, trait registry), the context built by Cx::new, and one   *)
(* action per context operation.  Loops and the fatal const-eval path are  *)
(* modelled step by step; every other operation is one atomic action.      *)
(***************************************************************************)
EXTENDS Integers, Sequences, FiniteSets, TLC

\* ------------------------------------------------------------------ bounds
\* HIR node ids are 0..MaxNode; node 0 is the crate root.
MaxNode == 2
\* The trait registry holds at most MaxItems associated items.
MaxItems == 2
\* An ADT variant has at most MaxFields fields.
MaxFields == 2

Node == 0..MaxNode
\* The expressions, patterns and spans of the body that callers pass.
BodyNodes == {0, 1}

\* ------------------------------------------------- external collaborators
\* NodeId -> HirId (tcx.hir.definitions().node_to_hir_id).
node_to_hir_id(n) == [owner |-> 0, local_id |-> n]

\* NodeId -> DefId (tcx.hir.local_def_id).
local_def_id(n) == [krate |-> "LOCAL_CRATE", index |-> n]

\* The parent maps of a HIR tree: the root is its own parent, every other
\* node's parent was allocated before it.
ParentMaps == {p \in [Node -> Node] : p[0] = 0 /\ \A n \in Node \ {0} : p[n] < n}

\* The attributes an item may carry.
AttrSets == {{}, {"inline"}, {"rustc_inherit_overflow_checks"}}

\* What FnLikeNode::from_node answers for a Fn body owner: None for a node
\* that is not function-like, else the function's declared constness.
FnLikes == {"None", "Const", "NotConst"}

BodyOwnerKinds == {"Fn", "Const", "Static"}

\* Types: "_" is an unresolved inference variable, "Self" and "P0" are the
\* trait's own parameters (substitution indices 0 and 1).
Ty == {"bool", "String", "_", "Vec<_>"}
\* The type arguments callers pass for the trait's parameter.
ParamTys == {"bool", "String"}
ParamIndex(t) == CASE t = "Self" -> 1 [] t = "P0" -> 2 [] OTHER -> 0

\* ty.subst(tcx, substs) on an atom and on a function signature.
subst_atom(t, substs) == IF ParamIndex(t) = 0 THEN t ELSE substs[ParamIndex(t)]
subst(fn_ty, substs) ==
    [inputs |-> [i \in DOMAIN fn_ty.inputs |-> subst_atom(fn_ty.inputs[i], substs)],
     output |-> subst_atom(fn_ty.output, substs)]

\* tcx.mk_substs_trait(self_ty, params): Self first, then the parameters.
mk_substs_trait(self_ty, params) == <<self_ty>> \o params

\* tcx.lift_to_global: fails on a type with inference types/regions.
lift_to_global(ty, param_env) ==
    IF ty \in {"_", "Vec<_>"} THEN [none |-> TRUE]
    ELSE [ty |-> ty, param_env |-> param_env]

\* The type-property queries.
needs_drop_query(ty, param_env) == ty \in {"String", "Vec<_>"}
type_moves_by_default_query(param_env, ty) == ty # "bool"

\* ConstUsize::new(value, usize_ty): Err when the value does not fit.  The
\* values drawn stay below 2^31, so only a 16-bit target can reject one.
ConstUsize_new(value, bits) ==
    IF bits >= 32 \/ value < 2 ^ bits THEN [ok |-> value] ELSE [err |-> "ULitOutOfRange"]

\* The declared signatures a trait method may have.
MethodSigs == {[inputs |-> <<"Self", "P0">>, output |-> "bool"],
               [inputs |-> <<"P0", "Self">>, output |-> "Self"]}
Names == {"eq", "ne"}
AssocKinds == {"Method", "Const", "Type"}
AssocItem == [kind : AssocKinds, name : Names, sig : MethodSigs]
ItemLists == UNION {[1..n -> AssocItem] : n \in 0..MaxItems}

\* ------------------------------------------------------------------ state
VARIABLES
    hir_parent,     \* tcx.hir.get_parent_node, as a map
    lint_sets,      \* the HirIds tcx.lint_levels(LOCAL_CRATE) has a set for
    src,            \* the body owner: [id, kind, fn_like, attrs]
    sess,           \* tcx.sess: [overflow_checks, has_errors]
    assoc_items,    \* tcx.associated_items of the trait
    cx,             \* the context, NoCx before Cx::new returns
    pc,             \* where the driver is
    locals,         \* Cx::new's locals while lint_level_for_hir_id runs
    id,             \* lint_level_for_hir_id's loop variable
    visited,        \* the nodes the walk has examined, in order
    args,           \* the running or last operation and its arguments
    ret,            \* what the last operation returned
    calls           \* the session calls of the fatal const-eval path

vars == <<hir_parent, lint_sets, src, sess, assoc_items, cx, pc, locals, id,
          visited, args, ret, calls>>
world == <<hir_parent, lint_sets, src, assoc_items>>

NoCx == [none |-> TRUE]
None == [none |-> TRUE]

TheTrait == [krate |-> "core", index |-> 0]
item_def_id(i) == [krate |-> "core", index |-> i]

\* ----------------------------------------------------------------- Cx::new
\* Mutant: a Fn owner whose node is not function-like counts as const.
constness_of_default_const(kind, fn_like) ==
    CASE kind \in {"Const", "Static"} -> "Const"
      [] kind = "Fn" -> IF fn_like = "None" THEN "Const" ELSE fn_like

constness_of(kind, fn_like) ==
    CASE kind \in {"Const", "Static"} -> "Const"
      [] kind = "Fn" -> IF fn_like = "None" THEN "NotConst" ELSE fn_like

\* Mutant: the constness of the body is not or-ed in.
check_overflow_of_no_const(attrs, overflow_checks, constness) ==
    LET c0 == \E item \in attrs : item = "rustc_inherit_overflow_checks"
    IN  c0 \/ overflow_checks

check_overflow_of(attrs, overflow_checks, constness) ==
    LET c0 == \E item \in attrs : item = "rustc_inherit_overflow_checks"
        c1 == c0 \/ overflow_checks
    IN  c1 \/ constness = "Const"

MkCx(lint_level, l) ==
    [root_lint_level   |-> lint_level,
     param_env         |-> [q |-> "param_env", of |-> l.src_def_id],
     identity_substs   |-> [q |-> "identity_for_item", of |-> l.src_def_id],
     region_scope_tree |-> [q |-> "region_scope_tree", of |-> l.src_def_id],
     tables            |-> [q |-> "typeck_tables_of", of |-> l.src_def_id],
     constness         |-> l.constness,
     body_owner_kind   |-> l.body_owner_kind,
     check_overflow    |-> l.check_overflow]

\* Cx::new up to the call of lint_level_for_hir_id.
CxNew ==
    /\ pc = "new"
    /\ LET constness == constness_of(src.kind, src.fn_like)
       IN  locals' = [src_def_id      |-> local_def_id(src.id),
                      body_owner_kind |-> src.kind,
                      constness       |-> constness,
                      check_overflow  |-> check_overflow_of(src.attrs,
                                              sess.overflow_checks, constness)]
    /\ id' = src.id
    /\ visited' = <<>>
    /\ args' = [op |-> "new", src_id |-> src.id]
    /\ pc' = "lint_loop"
    /\ UNCHANGED <<world, sess, cx, ret, calls>>

\* Mutant: the loop does not notice that the parent of the root is the root.
lint_loop_body_no_root_check(i) ==
    IF node_to_hir_id(i) \in lint_sets THEN [return |-> i]
    ELSE [continue |-> hir_parent[i]]

\* Mutant: the loop moves to the parent before it looks for a level set.
lint_loop_body_parent_first(i) ==
    LET next == hir_parent[i]
    IN  IF node_to_hir_id(next) \in lint_sets THEN [return |-> next]
        ELSE IF next = i
             THEN [bug |-> "lint traversal reached the root of the crate"]
             ELSE [continue |-> next]

\* Mutant: the loop tests for the root before it looks for a level set.
lint_loop_body_root_first(i) ==
    LET next == hir_parent[i]
    IN  IF next = i THEN [bug |-> "lint traversal reached the root of the crate"]
        ELSE IF node_to_hir_id(i) \in lint_sets THEN [return |-> i]
        ELSE [continue |-> next]

\* The body of lint_level_for_hir_id's loop at node i.
lint_loop_body(i) ==
    IF node_to_hir_id(i) \in lint_sets THEN [return |-> i]
    ELSE LET next == hir_parent[i]
         IN  IF next = i
             THEN [bug |-> "lint traversal reached the root of the crate"]
             ELSE [continue |-> next]

\* One iteration of lint_level_for_hir_id's loop; on `return id` Cx::new
\* builds the context.
LintLoop ==
    /\ pc = "lint_loop"
    /\ visited' = Append(visited, id)
    /\ LET step == lint_loop_body(id)
       IN  \/ /\ "return" \in DOMAIN step
              /\ cx' = MkCx(step.return, locals)
              /\ ret' = [val |-> "Cx"]
              /\ pc' = "returned"
              /\ UNCHANGED id
           \/ /\ "bug" \in DOMAIN step
              /\ ret' = step
              /\ pc' = "bug"
              /\ UNCHANGED <<id, cx>>
           \/ /\ "continue" \in DOMAIN step
              /\ id' = step.continue
              /\ UNCHANGED <<cx, ret, pc>>
    /\ UNCHANGED <<world, sess, locals, args, calls>>

\* ------------------------------------------------------------- operations
\* An operation that returns `r` to the driver.
Return(a, r) ==
    /\ args' = a
    /\ ret' = [val |-> r]
    /\ pc' = "returned"
    /\ UNCHANGED <<world, sess, cx, locals, id, visited, calls>>

\* The caller takes the result; the mutable borrow of the context ends and
\* the context can be used again.
take_result ==
    /\ pc = "returned"
    /\ pc' = "ready"
    /\ args' = None
    /\ ret' = None
    /\ UNCHANGED <<world, sess, cx, locals, id, visited, calls>>

\* An operation that ends in bug!(msg).
Bug(a, msg) ==
    /\ args' = a
    /\ ret' = [bug |-> msg]
    /\ pc' = "bug"
    /\ UNCHANGED <<world, sess, cx, locals, id, visited, calls>>

Literal(val, ty) == [value |-> [val |-> val, ty |-> ty]]

lint_level_of ==
    /\ pc = "ready"
    /\ \E node_id \in Node :
         LET has_lint_level == node_to_hir_id(node_id) \in lint_sets
         IN  Return([op |-> "lint_level_of", node_id |-> node_id],
                    IF has_lint_level THEN [level |-> "Explicit", node |-> node_id]
                                      ELSE [level |-> "Inherited"])

\* The target's usize widths and the values a caller may pass.
UsizeBits == {16, 32, 64}
UsizeValues == {0, 65535, 65536}

usize_ty ==
    /\ pc = "ready"
    /\ Return([op |-> "usize_ty"], "usize")

bool_ty ==
    /\ pc = "ready"
    /\ Return([op |-> "bool_ty"], "bool")

unit_ty ==
    /\ pc = "ready"
    /\ Return([op |-> "unit_ty"], "()")

usize_literal ==
    /\ pc = "ready"
    /\ \E value \in UsizeValues, bits \in UsizeBits :
         LET a == [op |-> "usize_literal", value |-> value, usize_ty |-> bits]
             r == ConstUsize_new(value, bits)
         IN  \/ /\ "ok" \in DOMAIN r
                /\ Return(a, Literal([integral |-> r.ok], "usize"))
             \/ /\ "err" \in DOMAIN r
                /\ Bug(a, "usize literal out of range for target")

\* Mutant: building a literal switches the context's overflow checks off.
true_literal_writes_cx ==
    /\ pc = "ready"
    /\ args' = [op |-> "true_literal"]
    /\ ret' = [val |-> Literal([bool |-> TRUE], "bool")]
    /\ pc' = "returned"
    /\ cx' = [cx EXCEPT !.check_overflow = FALSE]
    /\ UNCHANGED <<world, sess, locals, id, visited, calls>>

true_literal ==
    /\ pc = "ready"
    /\ Return([op |-> "true_literal"], Literal([bool |-> TRUE], "bool"))

false_literal ==
    /\ pc = "ready"
    /\ Return([op |-> "false_literal"], Literal([bool |-> FALSE], "bool"))

\* What ConstContext::eval may answer: a value, or an error that report()
\* does or does not turn into a recorded error.
EvalResults == {[ok |-> 7], [err |-> "NonConstPath"], [err |-> "TypeckError"]}

\* const_eval_literal up to the match on the evaluator's answer; the Err arm
\* enters fatal_const_eval_err.
const_eval_literal ==
    /\ pc = "ready"
    /\ \E e \in BodyNodes, res \in EvalResults :
         LET a == [op |-> "const_eval_literal", e |-> e, eval |-> res,
                   env |-> [param_env |-> cx.param_env,
                            substs |-> cx.identity_substs,
                            tables |-> cx.tables]]
         IN  \/ /\ "ok" \in DOMAIN res
                /\ calls' = <<>>
                /\ args' = a
                /\ ret' = [val |-> [value |-> res.ok]]
                /\ pc' = "returned"
             \/ /\ "err" \in DOMAIN res
                /\ calls' = <<>>
                /\ args' = a
                /\ ret' = None
                /\ pc' = "fatal_report"
    /\ UNCHANGED <<world, sess, cx, locals, id, visited>>

\* ConstEvalErr::report: an error already reported by type checking is not
\* reported again, any other one is recorded by the session.
report(err, s) ==
    IF err = "TypeckError" THEN s ELSE [s EXCEPT !.has_errors = TRUE]

\* Mutant: fatal_const_eval_err goes to abort_if_errors without reporting.
fatal_report_skipped ==
    /\ pc = "fatal_report"
    /\ pc' = "fatal_abort_if_errors"
    /\ UNCHANGED <<world, sess, cx, locals, id, visited, args, ret, calls>>

\* fatal_const_eval_err: err.report(tcx, primary_span, primary_kind).
fatal_report ==
    /\ pc = "fatal_report"
    /\ sess' = report(args.eval.err, sess)
    /\ calls' = Append(calls, [call |-> "report", span |-> args.e,
                               kind |-> "expression"])
    /\ pc' = "fatal_abort_if_errors"
    /\ UNCHANGED <<world, cx, locals, id, visited, args, ret>>

\* fatal_const_eval_err: tcx.sess.abort_if_errors(); unreachable!().
fatal_abort_if_errors ==
    /\ pc = "fatal_abort_if_errors"
    /\ calls' = Append(calls, [call |-> "abort_if_errors"])
    /\ \/ /\ sess.has_errors
          /\ pc' = "aborted"
       \/ /\ ~sess.has_errors
          /\ pc' = "unreachable"
    /\ UNCHANGED <<world, sess, cx, locals, id, visited, args, ret>>

\* What tcx.hir.get answers for the pattern's id.
HirNodes == {"NodePat", "NodeBinding", "NodeExpr"}

pattern_from_hir ==
    /\ pc = "ready"
    /\ \E p \in BodyNodes, node \in HirNodes :
         LET a == [op |-> "pattern_from_hir", p |-> p, node |-> node]
         IN  \/ /\ node \in {"NodePat", "NodeBinding"}
                /\ Return(a, [pattern |-> p,
                              env |-> [param_env |-> cx.param_env,
                                       substs |-> cx.identity_substs,
                                       tables |-> cx.tables]])
             \/ /\ node \notin {"NodePat", "NodeBinding"}
                /\ Bug(a, "pattern became")

\* Mutant: the loop compares the name and not the kind.
RECURSIVE find_method_any_kind(_, _, _)
find_method_any_kind(items, i, method_name) ==
    IF i > Len(items) THEN 0
    ELSE IF items[i].name = method_name THEN i
    ELSE find_method_any_kind(items, i + 1, method_name)

\* Mutant: a loop that finds nothing falls back to the trait's last item.
RECURSIVE find_method_or_last(_, _, _)
find_method_or_last(items, i, method_name) ==
    IF i > Len(items) THEN Len(items)
    ELSE IF items[i].kind = "Method" /\ items[i].name = method_name THEN i
    ELSE find_method_or_last(items, i + 1, method_name)

\* The for loop of trait_method from item i on: the index of the item it
\* returns from, 0 when it runs off the end.
RECURSIVE find_method(_, _, _)
find_method(items, i, method_name) ==
    IF i > Len(items) THEN 0
    ELSE IF items[i].kind = "Method" /\ items[i].name = method_name THEN i
    ELSE find_method(items, i + 1, method_name)

trait_method ==
    /\ pc = "ready"
    /\ \E method_name \in Names \cup {"lt"}, self_ty \in Ty,
          params \in [1..1 -> ParamTys] :
         LET a == [op |-> "trait_method", trait_def_id |-> TheTrait,
                   method_name |-> method_name, self_ty |-> self_ty,
                   params |-> params]
             substs == mk_substs_trait(self_ty, params)
             i == find_method(assoc_items, 1, method_name)
             method_ty == subst(assoc_items[i].sig, substs)
         IN  \/ /\ i # 0
                /\ Return(a, <<method_ty,
                               Literal([function |-> item_def_id(i),
                                        substs |-> substs], method_ty)>>)
             \/ /\ i = 0
                /\ Bug(a, "found no method")

\* The field counts of the variants of the ADTs a caller may pass.
AdtDefs == UNION {[1..n -> 0..MaxFields] : n \in 1..2}

all_fields ==
    /\ pc = "ready"
    /\ \E adt_def \in AdtDefs :
         \E variant_index \in 0..(Len(adt_def) - 1) :
            LET n == adt_def[variant_index + 1]
            IN  Return([op |-> "all_fields", adt_def |-> adt_def,
                        variant_index |-> variant_index],
                       [k \in 1..n |-> [field |-> k - 1]])

\* Mutant: needs_drop asks the query about the type as given, unlifted.
needs_drop_body_unlifted(ty, param_env) ==
    [val |-> needs_drop_query(ty, param_env)]

\* needs_drop's body: the answer, or the bug! of a failed lift.
needs_drop_body(ty, param_env) ==
    LET lifted == lift_to_global(ty, param_env)
    IN  IF "ty" \in DOMAIN lifted
        THEN [val |-> needs_drop_query(lifted.ty, lifted.param_env)]
        ELSE [bug |-> "MIR: Cx::needs_drop got type with inference types/regions"]

needs_drop ==
    /\ pc = "ready"
    /\ \E ty \in Ty :
         LET a == [op |-> "needs_drop", ty |-> ty]
             r == needs_drop_body(ty, cx.param_env)
         IN  \/ /\ "val" \in DOMAIN r
                /\ Return(a, r.val)
             \/ /\ "bug" \in DOMAIN r
                /\ Bug(a, r.bug)

tcx ==
    /\ pc = "ready"
    /\ Return([op |-> "tcx"], "tcx")

tables ==
    /\ pc = "ready"
    /\ Return([op |-> "tables"], cx.tables)

check_overflow ==
    /\ pc = "ready"
    /\ Return([op |-> "check_overflow"], cx.check_overflow)

type_moves_by_default ==
    /\ pc = "ready"
    /\ \E ty \in Ty, span \in BodyNodes :
         Return([op |-> "type_moves_by_default", ty |-> ty, span |-> span],
                type_moves_by_default_query(cx.param_env, ty))

\* --------------------------------------------------------- specifications
\* PartialEq as the registry holds it.
PartialEqItems ==
    <<[kind |-> "Method", name |-> "eq",
       sig |-> [inputs |-> <<"Self", "P0">>, output |-> "bool"]],
      [kind |-> "Method", name |-> "ne",
       sig |-> [inputs |-> <<"Self", "P0">>, output |-> "bool"]]>>

InitDriver ==
    /\ cx = NoCx
    /\ pc = "new"
    /\ locals = None
    /\ id = 0
    /\ visited = <<>>
    /\ args = None
    /\ ret = None
    /\ calls = <<>>

\* Every HIR tree, lint-level map, body owner and session; the trait is
\* PartialEq.
Init ==
    /\ hir_parent \in ParentMaps
    /\ lint_sets \in SUBSET {node_to_hir_id(n) : n \in Node}
    /\ src \in [id : Node, kind : {"Const", "Static"}, fn_like : {"None"},
                attrs : AttrSets]
               \cup [id : Node, kind : {"Fn"}, fn_like : FnLikes, attrs : AttrSets]
    /\ sess \in [overflow_checks : BOOLEAN, has_errors : BOOLEAN]
    /\ assoc_items = PartialEqItems
    /\ InitDriver

\* Every trait registry; the body is a plain function under the crate root,
\* which carries the only lint-level set.
InitTrait ==
    /\ hir_parent = [n \in Node |-> IF n = 0 THEN 0 ELSE n - 1]
    /\ lint_sets = {node_to_hir_id(0)}
    /\ src = [id |-> MaxNode, kind |-> "Fn", fn_like |-> "NotConst", attrs |-> {}]
    /\ sess = [overflow_checks |-> FALSE, has_errors |-> FALSE]
    /\ assoc_items \in ItemLists
    /\ InitDriver

Next ==
    \/ CxNew
    \/ LintLoop
    \/ usize_ty
    \/ usize_literal
    \/ bool_ty
    \/ unit_ty
    \/ true_literal
    \/ false_literal
    \/ const_eval_literal
    \/ pattern_from_hir
    \/ fatal_report
    \/ fatal_abort_if_errors
    \/ trait_method
    \/ all_fields
    \/ needs_drop
    \/ lint_level_of
    \/ tcx
    \/ tables
    \/ check_overflow
    \/ type_moves_by_default
    \/ take_result

Spec == Init /\ [][Next]_vars
SpecTrait == InitTrait /\ [][Next]_vars

\* ----------------------------------------------------------------- claims
\* The operation that is running or has last run.
Op == IF "op" \in DOMAIN args THEN args.op ELSE "none"
Built == "constness" \in DOMAIN cx
Returned(op) == pc = "returned" /\ Op = op
Bugged(op) == pc = "bug" /\ Op = op

HasAttr == "rustc_inherit_overflow_checks" \in src.attrs
HasLevel(n) == [owner |-> 0, local_id |-> n] \in lint_sets

\* The number of parent steps from n to the root.
RECURSIVE Depth(_)
Depth(n) == IF hir_parent[n] = n THEN 0 ELSE 1 + Depth(hir_parent[n])

\* n and its lexical ancestors.
RECURSIVE Chain(_)
Chain(n) == IF hir_parent[n] = n THEN {n} ELSE {n} \cup Chain(hir_parent[n])

\* C1: the overflow-check policy of a built context, and what
\* check_overflow() answers, is true iff the item carries
\* rustc_inherit_overflow_checks, or the session's overflow-checks flag is
\* on, or the constness is Const; a static or const with neither attribute
\* nor flag has it true.
C1_CheckOverflowIsOr ==
    /\ Built => cx.check_overflow
                  = (HasAttr \/ sess.overflow_checks \/ cx.constness = "Const")
    /\ Returned("check_overflow") =>
           ret.val = (HasAttr \/ sess.overflow_checks \/ cx.constness = "Const")
    /\ (Built /\ src.kind \in {"Static", "Const"}) => cx.check_overflow

C1_Witness ==
    /\ Returned("check_overflow")
    /\ src.kind = "Static"
    /\ ~HasAttr
    /\ ~sess.overflow_checks
    /\ ret.val = TRUE

\* C2: the constness of a built context is Const iff the owner is a const
\* or a static, or a Fn whose node is function-like and declared const; every
\* other Fn owner gets NotConst.
C2_Constness ==
    Built =>
        /\ cx.constness \in {"Const", "NotConst"}
        /\ cx.constness = "Const"
             <=> \/ src.kind \in {"Const", "Static"}
                 \/ src.kind = "Fn" /\ src.fn_like = "Const"

C2_Witness ==
    /\ Built
    /\ src.kind = "Fn"
    /\ src.fn_like = "None"
    /\ cx.constness = "NotConst"

\* C3: the ancestor walk never examines a node twice, takes at most as
\* many parent steps as the start node is deep, can always take its next
\* step while it runs, and has ended (a node returned, or the bug) once it
\* has examined the whole chain.
C3_WalkTerminates ==
    /\ \A i, j \in DOMAIN visited : i # j => visited[i] # visited[j]
    /\ Len(visited) <= Depth(src.id) + 1
    /\ pc = "lint_loop" =>
          /\ Len(visited) <= Depth(src.id)
          /\ id \notin {visited[i] : i \in DOMAIN visited}
          /\ ENABLED LintLoop
    /\ Len(visited) = Depth(src.id) + 1 => pc # "lint_loop"

C3_Witness ==
    /\ Returned("new")
    /\ Len(visited) = 3
    /\ Depth(src.id) = 2

\* C4: lint_level_of answers Explicit(node) for a node with a level set of
\* its own and Inherited for any other; the walk returns the nearest node of
\* the start node's ancestor-or-self chain that has a level set, which is
\* the parent for a start node without one whose parent has one.
C4_NearestExplicit ==
    /\ Returned("lint_level_of") =>
          ret.val = IF HasLevel(args.node_id)
                    THEN [level |-> "Explicit", node |-> args.node_id]
                    ELSE [level |-> "Inherited"]
    /\ Built =>
          /\ cx.root_lint_level \in Chain(src.id)
          /\ HasLevel(cx.root_lint_level)
          /\ \A n \in Chain(src.id) :
                HasLevel(n) => n \in Chain(cx.root_lint_level)
          /\ (~HasLevel(src.id) /\ HasLevel(hir_parent[src.id]))
                => cx.root_lint_level = hir_parent[src.id]
          /\ HasLevel(src.id) => cx.root_lint_level = src.id

C4_Witness ==
    /\ Returned("lint_level_of")
    /\ args.node_id = src.id
    /\ ret.val = [level |-> "Inherited"]
    /\ hir_parent[src.id] # src.id
    /\ cx.root_lint_level = hir_parent[src.id]
    /\ cx.root_lint_level # 0

\* C5: the walk ends in the bug exactly when no node from the start node up
\* to the root has a level set: in that case no context is ever built and
\* the bug is raised at the root, and in every other case (the root with a
\* level set of its own included) the bug is not raised.
C5_BugIffUnresolvedRoot ==
    LET unresolved == \A n \in Chain(src.id) : ~HasLevel(n)
    IN  /\ unresolved => ~Built /\ pc \in {"new", "lint_loop", "bug"}
        /\ Bugged("new") =>
              /\ unresolved
              /\ hir_parent[id] = id
              /\ "val" \notin DOMAIN ret
        /\ ~unresolved => ~Bugged("new")
        /\ (pc = "lint_loop" /\ unresolved /\ hir_parent[id] = id)
              => "bug" \in DOMAIN lint_loop_body(id)

C5_Witness ==
    /\ Bugged("new")
    /\ Len(visited) >= 2
    /\ ~Built

\* The items of the trait that are methods of the requested name.
Matches == {i \in DOMAIN assoc_items :
               /\ assoc_items[i].kind = "Method"
               /\ assoc_items[i].name = args.method_name}
FirstMatch == CHOOSE i \in Matches : \A j \in Matches : i <= j

\* A declared type with Self and P0 replaced by the call's arguments.
Replaced(t) == IF t = "Self" THEN args.self_ty
               ELSE IF t = "P0" THEN args.params[1] ELSE t

\* C6: trait_method returns from the first item, in declared order, that
\* is a Method of exactly the requested name; the returned type is that
\* item's declared type with {self_ty, params} substituted, and the returned
\* literal is that item's function with the same substitution and type.
C6_FirstMethodOfName ==
    Returned("trait_method") =>
        /\ Matches # {}
        /\ LET sig == assoc_items[FirstMatch].sig
               ty  == [inputs |-> [k \in DOMAIN sig.inputs |-> Replaced(sig.inputs[k])],
                       output |-> Replaced(sig.output)]
           IN  /\ ret.val[1] = ty
               /\ ret.val[2].value.ty = ty
               /\ ret.val[2].value.val.function = [krate |-> "core", index |-> FirstMatch]
               /\ ret.val[2].value.val.substs = <<args.self_ty, args.params[1]>>

C6_Witness ==
    /\ Returned("trait_method")
    /\ Len(assoc_items) = 2
    /\ assoc_items[1].kind # "Method"
    /\ assoc_items[1].name = args.method_name
    /\ ret.val[2].value.val.function.index = 2
    /\ ret.val[1] = [inputs |-> <<"String", "String">>, output |-> "bool"]

\* C7: trait_method ends in the bug exactly when the trait has no Method of
\* the requested name, and then returns no pair.
C7_NoMethodIsBug ==
    (Op = "trait_method" /\ pc \in {"returned", "bug"}) =>
        /\ Matches = {} <=> pc = "bug"
        /\ pc = "bug" => "val" \notin DOMAIN ret

C7_Witness ==
    /\ Bugged("trait_method")
    /\ \E i \in DOMAIN assoc_items :
          /\ assoc_items[i].name = args.method_name
          /\ assoc_items[i].kind # "Method"

\* C8: const_eval_literal returns a literal only for the value of a
\* successful evaluation; on a failed one no value is ever returned, the
\* error is reported with the expression's span and "expression" before
\* abort_if_errors is called, and after abort_if_errors the unit is aborted
\* or, when no error is recorded, the unreachable!() is hit.
C8_FatalConstEval ==
    LET failed == "err" \in DOMAIN args.eval
        report_call == [call |-> "report", span |-> args.e, kind |-> "expression"]
    IN  /\ Returned("const_eval_literal") =>
              /\ ~failed
              /\ ret.val = [value |-> args.eval.ok]
              /\ calls = <<>>
        /\ (Op = "const_eval_literal" /\ failed) =>
              /\ pc \in {"fatal_report", "fatal_abort_if_errors", "aborted",
                         "unreachable"}
              /\ "val" \notin DOMAIN ret
              /\ pc = "fatal_report" => calls = <<>>
              /\ pc = "fatal_abort_if_errors" => calls = <<report_call>>
              /\ pc \in {"aborted", "unreachable"} =>
                    calls = <<report_call, [call |-> "abort_if_errors"]>>
              /\ pc = "aborted" => sess.has_errors
              /\ pc = "unreachable" => ~sess.has_errors

C8_Witness ==
    /\ Op = "const_eval_literal"
    /\ pc = "unreachable"
    /\ Len(calls) = 2
    /\ ~sess.has_errors

\* C9: no step taken once the context is built changes any of its fields.
C9_FieldsImmutable == [][Built => cx' = cx]_vars

C9_Witness ==
    /\ Returned("true_literal")
    /\ Built
    /\ cx.check_overflow

\* C10: needs_drop returns the query's answer for the type and the
\* context's parameter environment when the type has no inference types or
\* regions, and ends in the bug, returning no boolean, when it has.
C10_NeedsDropLift ==
    (Op = "needs_drop" /\ pc \in {"returned", "bug"}) =>
        LET infer == args.ty \in {"_", "Vec<_>"}
        IN  /\ infer <=> pc = "bug"
            /\ pc = "bug" => "val" \notin DOMAIN ret
            /\ pc = "returned" => ret.val = needs_drop_query(args.ty, cx.param_env)

C10_Witness ==
    /\ Bugged("needs_drop")
    /\ args.ty = "Vec<_>"
====
